---- MODULE Spec2Model ----
(***************************************************************************)
(* Persistent segment tree of data_structures/persistent_segment_tree.py:  *)
(* the node heap, the version table (roots) and the three operations of    *)
(* PersistentSegmentTree (constructor/_build, update/_update,              *)
(* query/_query), with the calls a client can make, valid or not, on one   *)
(* instance, by two threads, and on two instances.  Further, the two       *)
(* matchers of dynamic_programming/regex_match.py and check_bipartite of   *)
(* graphs/check_bipartite_graph_all.py, each run on bounded inputs.        *)
(***************************************************************************)
EXTENDS Integers, Sequences, FiniteSets, TLC

(***************************************************************************)
(* Bounds of the model.                                                    *)
(***************************************************************************)
\* longest input array given to the constructor
MaxN == 3
\* largest length of the version table when every call meets the documented
\* preconditions (1 + number of updates)
MaxVersions == 3
\* largest length of the version table when calls take arbitrary integers
MaxVersionsAnyArgs == 2
\* longest input array of the runs that only build and query
MaxNLarge == 8
\* longest input array of the runs with concurrent calls
MaxNThreads == 3
\* call depth at which the interpreter raises RecursionError
RecursionLimit == 6
\* longest input array of the runs with two instances
MaxNInstances == 2
\* largest total length of the two version tables in the runs with two
\* instances
MaxVersionsInstances == 4
\* longest text and longest pattern given to the matchers
MaxText == 2
MaxPattern == 3
\* largest number of vertices of a graph given to check_bipartite
MaxVertices == 3

\* the input arrays: for every length 0..MaxN the array 1, 2, 4, ... whose
\* sub-sums are pairwise distinct
Arrays == {[i \in 1..len |-> 2 ^ (i - 1)] : len \in 0..MaxN}

\* the values written by update calls: one equal to an element of the input,
\* one larger than the sum of any input
Values == {1, 2 ^ (MaxN + 2)}

(***************************************************************************)
(* State.                                                                  *)
(***************************************************************************)
VARIABLES
  instance,  \* "new" before the constructor ran, then "ready" or "failed"
  n,         \* self.n
  heap,      \* the Node objects of the process, ever allocated and still
             \* referenced: id -> fields
  roots,     \* self.roots, a Python list of Node references (0-based in the code)
  last,      \* the last call made on the instance, with its outcome
  logical,   \* ghost: per version, the array it is specified to denote
  threads,   \* per thread, the call it is executing step by step, if any
  peer,      \* a second PersistentSegmentTree of the same process: its own
             \* n, roots and last call; its Node objects live in heap as well
  regex,     \* the run of recursive_match and dp_match on one text and pattern
  bipartite  \* the run of check_bipartite on one graph

vars == <<instance, n, heap, roots, last, logical, threads, peer, regex, bipartite>>

\* the variables of the persistent segment tree
pst_vars == <<instance, n, heap, roots, last, logical, threads, peer>>

\* the value of a reference that is None (Node.left / Node.right of a leaf)
NoneRef == 0

\* class Node: the object Node(value) right after its constructor
Node(value) == [value |-> value, left |-> NoneRef, right |-> NoneRef]

\* the outcome of calls that raise nothing / the two exceptions the code can raise
NoError == "none"
IndexError == "IndexError"
RecursionError == "RecursionError"

Max(a, b) == IF a >= b THEN a ELSE b

Min(a, b) == IF a <= b THEN a ELSE b

(***************************************************************************)
(* Python list indexing, as used by self.roots[version]: an index in       *)
(* -len..-1 counts from the end, anything outside -len..len-1 raises       *)
(* IndexError.                                                             *)
(***************************************************************************)
ListIndexOk(list, i) == -Len(list) <= i /\ i < Len(list)

ListGet(list, i) == IF i >= 0 THEN list[i + 1] ELSE list[Len(list) + i + 1]

\* _build that gives an internal node the value of its left child only
RECURSIVE _build_left_value(_, _, _, _, _)
_build_left_value(h, arr, start, end, depth) ==
  IF depth > RecursionLimit
  THEN [heap |-> h, node |-> NoneRef, err |-> RecursionError]
  ELSE IF start = end
  THEN LET h1 == Append(h, Node(arr[start + 1]))
       IN  [heap |-> h1, node |-> Len(h1), err |-> NoError]
  ELSE LET mid == (start + end) \div 2
           h1 == Append(h, Node(0))
           node == Len(h1)
           l == _build_left_value(h1, arr, start, mid, depth + 1)
       IN  IF l.err # NoError THEN l
           ELSE LET r == _build_left_value(l.heap, arr, mid + 1, end, depth + 1)
                IN  IF r.err # NoError THEN r
                    ELSE [heap |-> [r.heap EXCEPT ![node] =
                                      [left |-> l.node,
                                       right |-> r.node,
                                       value |-> r.heap[l.node].value]],
                          node |-> node,
                          err |-> NoError]

(***************************************************************************)
(* _build(arr, start, end): allocates the node first, then builds the left *)
(* and the right subtree, then sets the node's value.  depth is the depth  *)
(* of the call; a call deeper than RecursionLimit raises RecursionError.   *)
(* Result: the heap after the call, the node returned, the error raised.   *)
(***************************************************************************)
RECURSIVE _build(_, _, _, _, _)
_build(h, arr, start, end, depth) ==
  IF depth > RecursionLimit
  THEN [heap |-> h, node |-> NoneRef, err |-> RecursionError]
  ELSE IF start = end
  THEN LET h1 == Append(h, Node(arr[start + 1]))
       IN  [heap |-> h1, node |-> Len(h1), err |-> NoError]
  ELSE LET mid == (start + end) \div 2
           h1 == Append(h, Node(0))
           node == Len(h1)
           l == _build(h1, arr, start, mid, depth + 1)
       IN  IF l.err # NoError THEN l
           ELSE LET r == _build(l.heap, arr, mid + 1, end, depth + 1)
                IN  IF r.err # NoError THEN r
                    ELSE [heap |-> [r.heap EXCEPT ![node] =
                                      [left |-> l.node,
                                       right |-> r.node,
                                       value |-> r.heap[l.node].value
                                                 + r.heap[r.node].value]],
                          node |-> node,
                          err |-> NoError]

\* _update as an update in place: writes the nodes of the path instead of
\* copying them
RECURSIVE _update_in_place(_, _, _, _, _, _)
_update_in_place(h, node, start, end, index, value) ==
  IF start = end
  THEN [heap |-> [h EXCEPT ![node].value = value], node |-> node]
  ELSE LET mid == (start + end) \div 2
           child == IF index <= mid THEN h[node].left ELSE h[node].right
           c == IF index <= mid
                THEN _update_in_place(h, child, start, mid, index, value)
                ELSE _update_in_place(h, child, mid + 1, end, index, value)
       IN  [heap |-> [c.heap EXCEPT ![node].value =
                        c.heap[h[node].left].value + c.heap[h[node].right].value],
            node |-> node]

\* _update that copies the child off the path instead of sharing it
RECURSIVE _update_copies_sibling(_, _, _, _, _, _)
_update_copies_sibling(h, node, start, end, index, value) ==
  IF start = end
  THEN LET h1 == Append(h, Node(value))
       IN  [heap |-> h1, node |-> Len(h1)]
  ELSE LET mid == (start + end) \div 2
           h1 == Append(h, Node(0))
           new_node == Len(h1)
       IN  IF index <= mid
           THEN LET l == _update_copies_sibling(h1, h1[node].left, start, mid, index, value)
                    h2 == Append(l.heap, l.heap[l.heap[node].right])
                    right == Len(h2)
                IN  [heap |-> [h2 EXCEPT ![new_node] =
                                 [left |-> l.node,
                                  right |-> right,
                                  value |-> h2[l.node].value + h2[right].value]],
                     node |-> new_node]
           ELSE LET r == _update_copies_sibling(h1, h1[node].right, mid + 1, end, index, value)
                    h2 == Append(r.heap, r.heap[r.heap[node].left])
                    left == Len(h2)
                IN  [heap |-> [h2 EXCEPT ![new_node] =
                                 [left |-> left,
                                  right |-> r.node,
                                  value |-> h2[left].value + h2[r.node].value]],
                     node |-> new_node]

\* _update that takes the shared child from the wrong side of the base node
RECURSIVE _update_wrong_side(_, _, _, _, _, _)
_update_wrong_side(h, node, start, end, index, value) ==
  IF start = end
  THEN LET h1 == Append(h, Node(value))
       IN  [heap |-> h1, node |-> Len(h1)]
  ELSE LET mid == (start + end) \div 2
           h1 == Append(h, Node(0))
           new_node == Len(h1)
       IN  IF index <= mid
           THEN LET l == _update_wrong_side(h1, h1[node].left, start, mid, index, value)
                    right == l.heap[node].left
                IN  [heap |-> [l.heap EXCEPT ![new_node] =
                                 [left |-> l.node,
                                  right |-> right,
                                  value |-> l.heap[l.node].value
                                            + l.heap[right].value]],
                     node |-> new_node]
           ELSE LET r == _update_wrong_side(h1, h1[node].right, mid + 1, end, index, value)
                    left == r.heap[node].right
                IN  [heap |-> [r.heap EXCEPT ![new_node] =
                                 [left |-> left,
                                  right |-> r.node,
                                  value |-> r.heap[left].value
                                            + r.heap[r.node].value]],
                     node |-> new_node]

\* _update without the last assignment: the new node keeps the value Node() gave it
RECURSIVE _update_stale_value(_, _, _, _, _, _)
_update_stale_value(h, node, start, end, index, value) ==
  IF start = end
  THEN LET h1 == Append(h, Node(value))
       IN  [heap |-> h1, node |-> Len(h1)]
  ELSE LET mid == (start + end) \div 2
           h1 == Append(h, Node(0))
           new_node == Len(h1)
       IN  IF index <= mid
           THEN LET l == _update_stale_value(h1, h1[node].left, start, mid, index, value)
                IN  [heap |-> [l.heap EXCEPT ![new_node] =
                                 [left |-> l.node,
                                  right |-> l.heap[node].right,
                                  value |-> 0]],
                     node |-> new_node]
           ELSE LET r == _update_stale_value(h1, h1[node].right, mid + 1, end, index, value)
                IN  [heap |-> [r.heap EXCEPT ![new_node] =
                                 [left |-> r.heap[node].left,
                                  right |-> r.node,
                                  value |-> 0]],
                     node |-> new_node]

\* _update that goes left only when index < mid
RECURSIVE _update_strict_index(_, _, _, _, _, _)
_update_strict_index(h, node, start, end, index, value) ==
  IF start = end
  THEN LET h1 == Append(h, Node(value))
       IN  [heap |-> h1, node |-> Len(h1)]
  ELSE LET mid == (start + end) \div 2
           h1 == Append(h, Node(0))
           new_node == Len(h1)
       IN  IF index < mid
           THEN LET l == _update_strict_index(h1, h1[node].left, start, mid, index, value)
                    right == l.heap[node].right
                IN  [heap |-> [l.heap EXCEPT ![new_node] =
                                 [left |-> l.node,
                                  right |-> right,
                                  value |-> l.heap[l.node].value
                                            + l.heap[right].value]],
                     node |-> new_node]
           ELSE LET r == _update_strict_index(h1, h1[node].right, mid + 1, end, index, value)
                    left == r.heap[node].left
                IN  [heap |-> [r.heap EXCEPT ![new_node] =
                                 [left |-> left,
                                  right |-> r.node,
                                  value |-> r.heap[left].value
                                            + r.heap[r.node].value]],
                     node |-> new_node]

(***************************************************************************)
(* _update(node, start, end, index, value): path copy.  Result: the heap   *)
(* after the call and the new node returned.                               *)
(***************************************************************************)
RECURSIVE _update(_, _, _, _, _, _)
_update(h, node, start, end, index, value) ==
  IF start = end
  THEN LET h1 == Append(h, Node(value))
       IN  [heap |-> h1, node |-> Len(h1)]
  ELSE LET mid == (start + end) \div 2
           h1 == Append(h, Node(0))
           new_node == Len(h1)
       IN  IF index <= mid
           THEN LET l == _update(h1, h1[node].left, start, mid, index, value)
                    right == l.heap[node].right
                IN  [heap |-> [l.heap EXCEPT ![new_node] =
                                 [left |-> l.node,
                                  right |-> right,
                                  value |-> l.heap[l.node].value
                                            + l.heap[right].value]],
                     node |-> new_node]
           ELSE LET left == h1[node].left
                    r == _update(h1, h1[node].right, mid + 1, end, index, value)
                IN  [heap |-> [r.heap EXCEPT ![new_node] =
                                 [left |-> left,
                                  right |-> r.node,
                                  value |-> r.heap[left].value
                                            + r.heap[r.node].value]],
                     node |-> new_node]

\* _query with the no-overlap test off by one
RECURSIVE _query_strict(_, _, _, _, _, _)
_query_strict(h, node, start, end, left, right) ==
  IF left >= end \/ right <= start THEN 0
  ELSE IF left <= start /\ right >= end THEN h[node].value
  ELSE LET mid == (start + end) \div 2
       IN  _query_strict(h, h[node].left, start, mid, left, right)
           + _query_strict(h, h[node].right, mid + 1, end, left, right)

(***************************************************************************)
(* _query(node, start, end, left, right): three-way overlap decomposition. *)
(***************************************************************************)
RECURSIVE _query(_, _, _, _, _, _)
_query(h, node, start, end, left, right) ==
  IF left > end \/ right < start THEN 0
  ELSE IF left <= start /\ right >= end THEN h[node].value
  ELSE LET mid == (start + end) \div 2
       IN  _query(h, h[node].left, start, mid, left, right)
           + _query(h, h[node].right, mid + 1, end, left, right)

\* _query_visits that returns node.value only at a covered leaf and descends
\* into every other overlapping node
RECURSIVE _query_visits_to_leaves(_, _, _, _, _, _, _)
_query_visits_to_leaves(h, node, start, end, left, right, level) ==
  IF left > end \/ right < start
  THEN [ret |-> 0,
        visits |-> <<[level |-> level, start |-> start, end |-> end, descended |-> FALSE]>>]
  ELSE IF left <= start /\ right >= end /\ start = end
  THEN [ret |-> h[node].value,
        visits |-> <<[level |-> level, start |-> start, end |-> end, descended |-> FALSE]>>]
  ELSE LET mid == (start + end) \div 2
           l == _query_visits_to_leaves(h, h[node].left, start, mid, left, right, level + 1)
           r == _query_visits_to_leaves(h, h[node].right, mid + 1, end, left, right, level + 1)
       IN  [ret |-> l.ret + r.ret,
            visits |-> <<[level |-> level, start |-> start, end |-> end, descended |-> TRUE]>>
                       \o l.visits \o r.visits]

(***************************************************************************)
(* _query with its calls recorded: besides the sum, one record per call in *)
(* the order the calls are made, with the depth of the call (0 for the     *)
(* root), the range of its node and whether it made the two recursive      *)
(* calls.                                                                  *)
(***************************************************************************)
RECURSIVE _query_visits(_, _, _, _, _, _, _)
_query_visits(h, node, start, end, left, right, level) ==
  IF left > end \/ right < start
  THEN [ret |-> 0,
        visits |-> <<[level |-> level, start |-> start, end |-> end, descended |-> FALSE]>>]
  ELSE IF left <= start /\ right >= end
  THEN [ret |-> h[node].value,
        visits |-> <<[level |-> level, start |-> start, end |-> end, descended |-> FALSE]>>]
  ELSE LET mid == (start + end) \div 2
           l == _query_visits(h, h[node].left, start, mid, left, right, level + 1)
           r == _query_visits(h, h[node].right, mid + 1, end, left, right, level + 1)
       IN  [ret |-> l.ret + r.ret,
            visits |-> <<[level |-> level, start |-> start, end |-> end, descended |-> TRUE]>>
                       \o l.visits \o r.visits]

(***************************************************************************)
(* The public methods as functions of the state: what a call raises, what  *)
(* it returns, and the heap and the version table it leaves.               *)
(***************************************************************************)
\* query that treats left > right as an error
query_rejects_inverted(h, rts, size, version, left, right) ==
  IF ~ListIndexOk(rts, version)
  THEN [err |-> IndexError, ret |-> 0]
  ELSE IF left > right
  THEN [err |-> "ValueError", ret |-> 0]
  ELSE [err |-> NoError,
        ret |-> _query(h, ListGet(rts, version), 0, size - 1, left, right)]

\* PersistentSegmentTree.query(version, left, right)
query(h, rts, size, version, left, right) ==
  IF ~ListIndexOk(rts, version)
  THEN [err |-> IndexError, ret |-> 0]
  ELSE [err |-> NoError,
        ret |-> _query(h, ListGet(rts, version), 0, size - 1, left, right)]

\* update that builds on the latest version whatever version names
update_latest(h, rts, size, version, index, value) ==
  IF ~ListIndexOk(rts, version)
  THEN [err |-> IndexError, ret |-> 0, heap |-> h, roots |-> rts]
  ELSE LET u == _update(h, rts[Len(rts)], 0, size - 1, index, value)
           new_roots == Append(rts, u.node)
       IN  [err |-> NoError, ret |-> Len(new_roots) - 1,
            heap |-> u.heap, roots |-> new_roots]

\* update that returns the length of the table after the append
update_returns_length(h, rts, size, version, index, value) ==
  IF ~ListIndexOk(rts, version)
  THEN [err |-> IndexError, ret |-> 0, heap |-> h, roots |-> rts]
  ELSE LET u == _update(h, ListGet(rts, version), 0, size - 1, index, value)
           new_roots == Append(rts, u.node)
       IN  [err |-> NoError, ret |-> Len(new_roots),
            heap |-> u.heap, roots |-> new_roots]

\* update that inserts the new root at the front of the table
update_prepends(h, rts, size, version, index, value) ==
  IF ~ListIndexOk(rts, version)
  THEN [err |-> IndexError, ret |-> 0, heap |-> h, roots |-> rts]
  ELSE LET u == _update(h, ListGet(rts, version), 0, size - 1, index, value)
           new_roots == <<u.node>> \o rts
       IN  [err |-> NoError, ret |-> Len(new_roots) - 1,
            heap |-> u.heap, roots |-> new_roots]

\* update that clamps a version id past the end to the latest version
update_clamps_version(h, rts, size, version, index, value) ==
  IF version < -Len(rts)
  THEN [err |-> IndexError, ret |-> 0, heap |-> h, roots |-> rts]
  ELSE LET u == _update(h, ListGet(rts, Min(version, Len(rts) - 1)),
                        0, size - 1, index, value)
           new_roots == Append(rts, u.node)
       IN  [err |-> NoError, ret |-> Len(new_roots) - 1,
            heap |-> u.heap, roots |-> new_roots]

\* update that returns the base version, and appends nothing, when the element
\* already has the value
update_skips_same_value(h, rts, size, version, index, value) ==
  IF ~ListIndexOk(rts, version)
  THEN [err |-> IndexError, ret |-> 0, heap |-> h, roots |-> rts]
  ELSE IF _query(h, ListGet(rts, version), 0, size - 1, index, index) = value
  THEN [err |-> NoError, ret |-> version, heap |-> h, roots |-> rts]
  ELSE LET u == _update(h, ListGet(rts, version), 0, size - 1, index, value)
           new_roots == Append(rts, u.node)
       IN  [err |-> NoError, ret |-> Len(new_roots) - 1,
            heap |-> u.heap, roots |-> new_roots]

\* PersistentSegmentTree.update(version, index, value)
update(h, rts, size, version, index, value) ==
  IF ~ListIndexOk(rts, version)
  THEN [err |-> IndexError, ret |-> 0, heap |-> h, roots |-> rts]
  ELSE LET u == _update(h, ListGet(rts, version), 0, size - 1, index, value)
           new_roots == Append(rts, u.node)
       IN  [err |-> NoError, ret |-> Len(new_roots) - 1,
            heap |-> u.heap, roots |-> new_roots]

(***************************************************************************)
(* Ghost: the array a version is specified to denote.  Version 0 denotes   *)
(* the constructor's input; update(b, i, x) with an existing version b     *)
(* (0 <= b < len(roots)) whose array is defined and 0 <= i < n denotes b's *)
(* array with element i replaced by x.  A version made by any other call   *)
(* has no specified array.                                                 *)
(***************************************************************************)
Undefined == [defined |-> FALSE, arr |-> <<>>]

Defined(arr) == [defined |-> TRUE, arr |-> arr]

LogicalAfterUpdate(lg, size, version, index, value) ==
  IF /\ 0 <= version /\ version < Len(lg)
     /\ 0 <= index /\ index < size
     /\ lg[version + 1].defined
  THEN Defined([lg[version + 1].arr EXCEPT ![index + 1] = value])
  ELSE Undefined

\* the record of a call: its arguments (x, y: index and value of an update,
\* left and right of a query), the error it raised and the value it returned
Call(op, version, x, y, err, ret) ==
  [op |-> op, version |-> version, x |-> x, y |-> y, err |-> err, ret |-> ret]

\* no call is in progress and no outcome is waiting for the caller
NoCall == Call("none", 0, 0, 0, NoError, 0)

(***************************************************************************)
(* Threads that call update and query on one instance at the same time.    *)
(* A thread runs its call statement by statement; between two statements   *)
(* any other thread may run.  Its record holds the call (op, version, x,   *)
(* y as in Call), where it stands (pc) and its local variables:            *)
(*   cur     the arguments node, start, end of the _update call entered    *)
(*   stack   the _update calls waiting for their recursive call, each with *)
(*           its node, start, end and the new_node it allocated            *)
(*   result  the node the last finished _update call returned              *)
(*   work    the _query calls still to make, first to last; the node of a  *)
(*           right call is read from its parent when the call is made      *)
(*   acc     the sum of the values the _query calls returned so far        *)
(*   expect  ghost: what the query returns when run alone in the state     *)
(*           where it started                                              *)
(*   overlap ghost: the query made a _query call while another thread was  *)
(*           inside an update call                                         *)
(***************************************************************************)
Threads == {"t1", "t2"}

IdleThread ==
  [pc |-> "idle", op |-> "none", version |-> 0, x |-> 0, y |-> 0,
   cur |-> [node |-> NoneRef, start |-> 0, end |-> 0],
   stack |-> <<>>, result |-> NoneRef, work |-> <<>>, acc |-> 0,
   ret |-> 0, err |-> NoError, expect |-> 0, overlap |-> FALSE]

(***************************************************************************)
(* dynamic_programming/regex_match.py: recursive_match and dp_match.  A    *)
(* string is a sequence of one-character strings.                          *)
(***************************************************************************)
\* s[-1]
LastChar(s) == s[Len(s)]

\* s[:-k]: s without its last k characters, the empty string when it has
\* no more than k
DropLast(s, k) == SubSeq(s, 1, Max(0, Len(s) - k))

RECURSIVE recursive_match(_, _)
recursive_match(text, pattern) ==
  IF text = <<>> /\ pattern = <<>> THEN TRUE
  ELSE IF text # <<>> /\ pattern = <<>> THEN FALSE
  ELSE IF text = <<>> /\ LastChar(pattern) # "*" THEN FALSE
  ELSE IF text = <<>> THEN recursive_match(text, DropLast(pattern, 2))
  ELSE IF LastChar(text) = LastChar(pattern) \/ LastChar(pattern) = "."
       THEN recursive_match(DropLast(text, 1), DropLast(pattern, 1))
  ELSE IF LastChar(pattern) = "*"
       THEN \/ recursive_match(DropLast(text, 1), pattern)
            \/ recursive_match(text, DropLast(pattern, 2))
  ELSE FALSE

\* dp[i][j] of the table dp, a list of rows (both indices as in the code)
DpGet(dp, i, j) == ListGet(ListGet(dp, i), j)

\* the table after dp[i][j] = value (i and j not negative)
DpSet(dp, i, j, value) == [dp EXCEPT ![i + 1][j + 1] = value]

\* the run of both functions on one input: where dp_match stands (pc, i, j:
\* the loop variables), its table, and what each function returned
MatchRun(text, pattern) ==
  [text |-> text, pattern |-> pattern, pc |-> "recursive", recursive |-> FALSE,
   dp |-> <<>>, i |-> 0, j |-> 0, ret |-> FALSE]

\* no input was given
NoMatch == [MatchRun(<<>>, <<>>) EXCEPT !.pc = "none"]

\* recursive_match(text, pattern) is called and returns
RecursiveMatch ==
  /\ regex.pc = "recursive"
  /\ regex' = [regex EXCEPT !.recursive = recursive_match(regex.text, regex.pattern),
                            !.pc = "alloc"]
  /\ UNCHANGED <<pst_vars, bipartite>>

\* dp_match, lines 76-82: the table of (m + 1) x (n + 1) False, dp[0][0] = True,
\* dp[i][0] = False for i in 1..m
DpAlloc ==
  LET m == Len(regex.text)
      len == Len(regex.pattern)
      dp == [i \in 1..(m + 1) |-> [j \in 1..(len + 1) |-> FALSE]]
  IN  /\ regex.pc = "alloc"
      /\ regex' = [regex EXCEPT !.dp = DpSet(dp, 0, 0, TRUE),
                                !.j = 1,
                                !.pc = IF len >= 1 THEN "first_row" ELSE "return"]
      /\ UNCHANGED <<pst_vars, bipartite>>

\* dp_match, lines 84-85, one iteration
DpFirstRow ==
  LET m == Len(regex.text)
      len == Len(regex.pattern)
      j == regex.j
      value == ListGet(regex.pattern, j - 1) = "*" /\ DpGet(regex.dp, 0, j - 2)
  IN  /\ regex.pc = "first_row"
      /\ regex' = [regex EXCEPT
                     !.dp = DpSet(regex.dp, 0, j, value),
                     !.i = IF j = len THEN 1 ELSE @,
                     !.j = IF j = len THEN 1 ELSE j + 1,
                     !.pc = IF j < len THEN "first_row"
                            ELSE IF m >= 1 THEN "cells" ELSE "return"]
      /\ UNCHANGED <<pst_vars, bipartite>>

\* dp_match, lines 87-94, one iteration of the inner loop
DpCell ==
  LET m == Len(regex.text)
      len == Len(regex.pattern)
      i == regex.i
      j == regex.j
      dp == regex.dp
      p == ListGet(regex.pattern, j - 1)
      t == ListGet(regex.text, i - 1)
      value == IF p = "." \/ p = t
               THEN DpGet(dp, i - 1, j - 1)
               ELSE IF p = "*"
               THEN \/ DpGet(dp, i, j - 2)
                    \/ /\ DpGet(dp, i - 1, j)
                       /\ \/ ListGet(regex.pattern, j - 2) = "."
                          \/ ListGet(regex.pattern, j - 2) = t
               ELSE FALSE
  IN  /\ regex.pc = "cells"
      /\ regex' = [regex EXCEPT
                     !.dp = DpSet(dp, i, j, value),
                     !.i = IF j = len THEN i + 1 ELSE i,
                     !.j = IF j = len THEN 1 ELSE j + 1,
                     !.pc = IF j = len /\ i = m THEN "return" ELSE "cells"]
      /\ UNCHANGED <<pst_vars, bipartite>>

\* dp_match, line 96: return dp[m][n]
DpReturn ==
  /\ regex.pc = "return"
  /\ regex' = [regex EXCEPT
                 !.ret = DpGet(regex.dp, Len(regex.text), Len(regex.pattern)),
                 !.pc = "done"]
  /\ UNCHANGED <<pst_vars, bipartite>>

(***************************************************************************)
(* graphs/check_bipartite_graph_all.py: check_bipartite.  A graph of n     *)
(* vertices 0..n-1 is the list of their adjacency lists; visited and color *)
(* are lists indexed by the vertex.                                        *)
(***************************************************************************)
\* the run of check_bipartite(graph): where it stands (pc), its locals
\* queue, visited, color, the loop variable i of lines 59-64, the vertex u
\* taken from the queue and the position k of the loop over graph[u]; ret is
\* what it returned, queued (ghost) the vertices ever put in the queue
GraphRun(graph) ==
  [graph |-> graph, pc |-> "start", queue |-> <<>>, visited |-> <<>>,
   color |-> <<>>, i |-> 0, u |-> 0, k |-> 0, ret |-> FALSE, queued |-> {}]

\* no graph was given
NoGraph == [GraphRun(<<>>) EXCEPT !.pc = "none"]

\* lines 22-24: the empty queue, visited = [False] * len(graph),
\* color = [-1] * len(graph)
BipartiteStart ==
  /\ bipartite.pc = "start"
  /\ bipartite' = [bipartite EXCEPT
                     !.visited = [v \in 1..Len(bipartite.graph) |-> FALSE],
                     !.color = [v \in 1..Len(bipartite.graph) |-> -1],
                     !.i = 0,
                     !.pc = "for"]
  /\ UNCHANGED <<pst_vars, regex>>

\* lines 59-60 and 66: the loop over the vertices ends with return True; a
\* visited vertex is passed over
BipartiteFor ==
  LET b == bipartite
  IN  /\ b.pc = "for"
      /\ bipartite' =
           IF b.i >= Len(b.graph)
           THEN [b EXCEPT !.ret = TRUE, !.pc = "done"]
           ELSE IF ListGet(b.visited, b.i)
           THEN [b EXCEPT !.i = b.i + 1]
           ELSE [b EXCEPT !.pc = "put"]
      /\ UNCHANGED <<pst_vars, regex>>

\* line 61: queue.put(i)
BipartitePut ==
  LET b == bipartite
  IN  /\ b.pc = "put"
      /\ bipartite' = [b EXCEPT !.queue = Append(b.queue, b.i),
                                !.queued = b.queued \cup {b.i},
                                !.pc = "color"]
      /\ UNCHANGED <<pst_vars, regex>>

\* line 62: color[i] = 0, then bfs() is entered
BipartiteColor ==
  LET b == bipartite
  IN  /\ b.pc = "color"
      /\ bipartite' = [b EXCEPT !.color[b.i + 1] = 0, !.pc = "bfs"]
      /\ UNCHANGED <<pst_vars, regex>>

\* bfs, lines 42-44 and 57: with an empty queue bfs returns True and the loop
\* of line 59 goes on; otherwise u = queue.get(), visited[u] = True
BfsGet ==
  LET b == bipartite
      u == Head(b.queue)
  IN  /\ b.pc = "bfs"
      /\ bipartite' =
           IF b.queue = <<>>
           THEN [b EXCEPT !.i = b.i + 1, !.pc = "for"]
           ELSE [b EXCEPT !.queue = Tail(b.queue),
                          !.u = u,
                          !.visited[u + 1] = TRUE,
                          !.k = 0,
                          !.pc = IF ListGet(b.graph, u) = <<>> THEN "bfs" ELSE "neighbour"]
      /\ UNCHANGED <<pst_vars, regex>>

\* a bfs that gives the other colour to a neighbour that has the colour of u
BfsNeighbour_recolours ==
  LET b == bipartite
      neighbours == ListGet(b.graph, b.u)
      neighbour == ListGet(neighbours, b.k)
      next == IF b.k + 1 < Len(neighbours)
              THEN [b EXCEPT !.k = b.k + 1]
              ELSE [b EXCEPT !.pc = "bfs"]
  IN  /\ b.pc = "neighbour"
      /\ bipartite' =
           IF neighbour = b.u
           THEN [b EXCEPT !.ret = FALSE, !.pc = "done"]
           ELSE IF ListGet(b.color, neighbour) = -1
           THEN [next EXCEPT !.color[neighbour + 1] = 1 - ListGet(b.color, b.u),
                             !.queue = Append(b.queue, neighbour),
                             !.queued = b.queued \cup {neighbour}]
           ELSE IF ListGet(b.color, neighbour) = ListGet(b.color, b.u)
           THEN [next EXCEPT !.color[neighbour + 1] = 1 - ListGet(b.color, b.u)]
           ELSE next
      /\ UNCHANGED <<pst_vars, regex>>

\* bfs, lines 46-55, one iteration of the loop over graph[u]: a self-loop or
\* a neighbour of the colour of u makes bfs, hence check_bipartite, return
\* False; a neighbour without a colour gets the other colour and is queued
BfsNeighbour ==
  LET b == bipartite
      neighbours == ListGet(b.graph, b.u)
      neighbour == ListGet(neighbours, b.k)
      next == IF b.k + 1 < Len(neighbours)
              THEN [b EXCEPT !.k = b.k + 1]
              ELSE [b EXCEPT !.pc = "bfs"]
  IN  /\ b.pc = "neighbour"
      /\ bipartite' =
           IF neighbour = b.u
           THEN [b EXCEPT !.ret = FALSE, !.pc = "done"]
           ELSE IF ListGet(b.color, neighbour) = -1
           THEN [next EXCEPT !.color[neighbour + 1] = 1 - ListGet(b.color, b.u),
                             !.queue = Append(b.queue, neighbour),
                             !.queued = b.queued \cup {neighbour}]
           ELSE IF ListGet(b.color, neighbour) = ListGet(b.color, b.u)
           THEN [b EXCEPT !.ret = FALSE, !.pc = "done"]
           ELSE next
      /\ UNCHANGED <<pst_vars, regex>>

\* the second instance before its constructor ran
NoPeer == [instance |-> "new", n |-> 0, roots |-> <<>>, last |-> NoCall]

(***************************************************************************)
(* Actions: one per call a client makes.                                   *)
(***************************************************************************)
Init ==
  /\ instance = "new"
  /\ n = 0
  /\ heap = <<>>
  /\ roots = <<>>
  /\ last = NoCall
  /\ logical = <<>>
  /\ threads = [t \in Threads |-> IdleThread]
  /\ peer = NoPeer
  /\ regex = NoMatch
  /\ bipartite = NoGraph

\* PersistentSegmentTree(arr)
Construct(arr) ==
  /\ instance = "new"
  /\ last = NoCall
  /\ LET b == _build(heap, arr, 0, Len(arr) - 1, 1)
     IN  IF b.err = NoError
         THEN /\ instance' = "ready"
              /\ n' = Len(arr)
              /\ heap' = b.heap
              /\ roots' = <<b.node>>
              /\ logical' = <<Defined(arr)>>
              /\ last' = Call("init", 0, 0, 0, NoError, 0)
         ELSE \* the exception leaves __init__: no instance, its nodes are garbage
              /\ instance' = "failed"
              /\ n' = Len(arr)
              /\ heap' = heap
              /\ roots' = <<>>
              /\ logical' = <<>>
              /\ last' = Call("init", 0, 0, 0, b.err, 0)
  /\ UNCHANGED <<threads, peer, regex, bipartite>>

\* pst.update(version, index, value)
Update(version, index, value) ==
  /\ instance = "ready"
  /\ last = NoCall
  /\ LET u == update(heap, roots, n, version, index, value)
     IN  /\ heap' = u.heap
         /\ roots' = u.roots
         /\ last' = Call("update", version, index, value, u.err, u.ret)
         /\ logical' = IF u.err = NoError
                       THEN Append(logical,
                                   LogicalAfterUpdate(logical, n, version, index, value))
                       ELSE logical
  /\ UNCHANGED <<instance, n, threads, peer, regex, bipartite>>

\* a query that stores the sum it computed in the root it started from
Query_caches(version, left, right) ==
  /\ instance = "ready"
  /\ last = NoCall
  /\ LET q == query(heap, roots, n, version, left, right)
     IN  /\ last' = Call("query", version, left, right, q.err, q.ret)
         /\ heap' = IF q.err = NoError
                    THEN [heap EXCEPT ![ListGet(roots, version)].value = q.ret]
                    ELSE heap
  /\ UNCHANGED <<instance, n, roots, logical, threads, peer, regex, bipartite>>

\* pst.query(version, left, right)
Query(version, left, right) ==
  /\ instance = "ready"
  /\ last = NoCall
  /\ LET q == query(heap, roots, n, version, left, right)
     IN  last' = Call("query", version, left, right, q.err, q.ret)
  /\ UNCHANGED <<instance, n, heap, roots, logical, threads, peer, regex, bipartite>>

\* the caller takes the outcome of its call; the instance awaits the next call
Return ==
  /\ last.op # "none"
  /\ last' = NoCall
  /\ UNCHANGED <<instance, n, heap, roots, logical, threads, peer, regex, bipartite>>

(***************************************************************************)
(* The same calls made on the second instance: __init__, update and query  *)
(* read and write self.n and self.roots of the instance they are called    *)
(* on; the Node objects they allocate are new objects of the process.      *)
(***************************************************************************)
\* other = PersistentSegmentTree(arr)
PeerConstruct(arr) ==
  /\ peer.instance = "new"
  /\ peer.last = NoCall
  /\ LET b == _build(heap, arr, 0, Len(arr) - 1, 1)
     IN  IF b.err = NoError
         THEN /\ heap' = b.heap
              /\ peer' = [instance |-> "ready", n |-> Len(arr), roots |-> <<b.node>>,
                          last |-> Call("init", 0, 0, 0, NoError, 0)]
         ELSE /\ heap' = heap
              /\ peer' = [instance |-> "failed", n |-> Len(arr), roots |-> <<>>,
                          last |-> Call("init", 0, 0, 0, b.err, 0)]
  /\ UNCHANGED <<instance, n, roots, last, logical, threads, regex, bipartite>>

\* an update of a class whose roots list is a class attribute: the list both
\* instances append to
PeerUpdate_shared_roots(version, index, value) ==
  /\ peer.instance = "ready"
  /\ peer.last = NoCall
  /\ LET u == update(heap, peer.roots, peer.n, version, index, value)
     IN  /\ heap' = u.heap
         /\ peer' = [peer EXCEPT !.roots = u.roots,
                       !.last = Call("update", version, index, value, u.err, u.ret)]
         /\ roots' = IF u.err = NoError THEN Append(roots, Len(u.heap)) ELSE roots
  /\ UNCHANGED <<instance, n, last, logical, threads, regex, bipartite>>

\* other.update(version, index, value)
PeerUpdate(version, index, value) ==
  /\ peer.instance = "ready"
  /\ peer.last = NoCall
  /\ LET u == update(heap, peer.roots, peer.n, version, index, value)
     IN  /\ heap' = u.heap
         /\ peer' = [peer EXCEPT !.roots = u.roots,
                       !.last = Call("update", version, index, value, u.err, u.ret)]
  /\ UNCHANGED <<instance, n, roots, last, logical, threads, regex, bipartite>>

\* other.query(version, left, right)
PeerQuery(version, left, right) ==
  /\ peer.instance = "ready"
  /\ peer.last = NoCall
  /\ LET q == query(heap, peer.roots, peer.n, version, left, right)
     IN  peer' = [peer EXCEPT !.last = Call("query", version, left, right, q.err, q.ret)]
  /\ UNCHANGED <<instance, n, heap, roots, last, logical, threads, regex, bipartite>>

\* the caller takes the outcome of its call on the second instance
PeerReturn ==
  /\ peer.last.op # "none"
  /\ peer' = [peer EXCEPT !.last = NoCall]
  /\ UNCHANGED <<instance, n, heap, roots, last, logical, threads, regex, bipartite>>

(***************************************************************************)
(* The statements of update, _update, query and _query as steps of a       *)
(* thread t.                                                               *)
(***************************************************************************)
\* the thread is inside an update call that has not returned
InUpdate(th) == th.op = "update" /\ th.pc # "done"

\* update, line 37: self.roots[version] is read, _update is entered at the root
UpdateBegin(t, version, index, value) ==
  /\ instance = "ready"
  /\ threads[t].pc = "idle"
  /\ threads' = [threads EXCEPT ![t] =
       IF ~ListIndexOk(roots, version)
       THEN [@ EXCEPT !.pc = "done", !.op = "update", !.version = version,
                      !.x = index, !.y = value, !.err = IndexError]
       ELSE [@ EXCEPT !.pc = "descend", !.op = "update", !.version = version,
                      !.x = index, !.y = value,
                      !.cur = [node |-> ListGet(roots, version),
                               start |-> 0, end |-> n - 1]]]
  /\ UNCHANGED <<instance, n, heap, roots, last, logical, peer, regex, bipartite>>

\* UpdateDescend that appends the new root to the version table as soon as it
\* is allocated, before its children and value are set
UpdateDescend_publishes(t) ==
  LET th == threads[t]
      c == th.cur
      mid == (c.start + c.end) \div 2
      h1 == Append(heap, Node(IF c.start = c.end THEN th.y ELSE 0))
  IN  /\ th.pc = "descend"
      /\ heap' = h1
      /\ roots' = IF th.stack = <<>> THEN Append(roots, Len(h1)) ELSE roots
      /\ logical' = IF th.stack = <<>>
                    THEN Append(logical,
                                LogicalAfterUpdate(logical, n, th.version, th.x, th.y))
                    ELSE logical
      /\ threads' = [threads EXCEPT ![t] =
           IF c.start = c.end
           THEN [@ EXCEPT !.result = Len(h1),
                          !.pc = IF th.stack = <<>> THEN "len" ELSE "link"]
           ELSE [@ EXCEPT
                   !.stack = <<[node |-> c.node, start |-> c.start, end |-> c.end,
                                new_node |-> Len(h1)]>> \o th.stack,
                   !.cur = IF th.x <= mid
                           THEN [node |-> heap[c.node].left,
                                 start |-> c.start, end |-> mid]
                           ELSE [node |-> heap[c.node].right,
                                 start |-> mid + 1, end |-> c.end]]]
      /\ UNCHANGED <<instance, n, last, peer, regex, bipartite>>

\* _update, lines 57-68 up to the recursive call: the leaf case returns
\* Node(value); otherwise new_node = Node() and the call for the child
\* on the side of index is entered
UpdateDescend(t) ==
  LET th == threads[t]
      c == th.cur
      mid == (c.start + c.end) \div 2
      h1 == Append(heap, Node(IF c.start = c.end THEN th.y ELSE 0))
  IN  /\ th.pc = "descend"
      /\ heap' = h1
      /\ threads' = [threads EXCEPT ![t] =
           IF c.start = c.end
           THEN [@ EXCEPT !.result = Len(h1),
                          !.pc = IF th.stack = <<>> THEN "append" ELSE "link"]
           ELSE [@ EXCEPT
                   !.stack = <<[node |-> c.node, start |-> c.start, end |-> c.end,
                                new_node |-> Len(h1)]>> \o th.stack,
                   !.cur = IF th.x <= mid
                           THEN [node |-> heap[c.node].left,
                                 start |-> c.start, end |-> mid]
                           ELSE [node |-> heap[c.node].right,
                                 start |-> mid + 1, end |-> c.end]]]
      /\ UNCHANGED <<instance, n, roots, last, logical, peer, regex, bipartite>>

\* _update, lines 64-65 or 67-68 after the recursive call returned: the two
\* child references of new_node are assigned
UpdateLink(t) ==
  LET th == threads[t]
      f == Head(th.stack)
      mid == (f.start + f.end) \div 2
  IN  /\ th.pc = "link"
      /\ heap' = IF th.x <= mid
                 THEN [heap EXCEPT ![f.new_node].left = th.result,
                                   ![f.new_node].right = heap[f.node].right]
                 ELSE [heap EXCEPT ![f.new_node].left = heap[f.node].left,
                                   ![f.new_node].right = th.result]
      /\ threads' = [threads EXCEPT ![t].pc = "value"]
      /\ UNCHANGED <<instance, n, roots, last, logical, peer, regex, bipartite>>

\* _update, lines 70-72: new_node.value is assigned and new_node returned
UpdateValue(t) ==
  LET th == threads[t]
      f == Head(th.stack)
      new_node == heap[f.new_node]
  IN  /\ th.pc = "value"
      /\ heap' = [heap EXCEPT ![f.new_node].value =
                    heap[new_node.left].value + heap[new_node.right].value]
      /\ threads' = [threads EXCEPT ![t] =
           [@ EXCEPT !.result = f.new_node,
                     !.stack = Tail(th.stack),
                     !.pc = IF Tail(th.stack) = <<>> THEN "append" ELSE "link"]]
      /\ UNCHANGED <<instance, n, roots, last, logical, peer, regex, bipartite>>

\* update, line 38: self.roots.append(new_root)
UpdateAppend(t) ==
  LET th == threads[t]
  IN  /\ th.pc = "append"
      /\ roots' = Append(roots, th.result)
      /\ logical' = Append(logical,
                           LogicalAfterUpdate(logical, n, th.version, th.x, th.y))
      /\ threads' = [threads EXCEPT ![t].pc = "len"]
      /\ UNCHANGED <<instance, n, heap, last, peer, regex, bipartite>>

\* update, line 39: return len(self.roots) - 1
UpdateLen(t) ==
  /\ threads[t].pc = "len"
  /\ threads' = [threads EXCEPT ![t] =
       [@ EXCEPT !.ret = Len(roots) - 1, !.pc = "done"]]
  /\ UNCHANGED <<instance, n, heap, roots, last, logical, peer, regex, bipartite>>

\* query, line 75: self.roots[version] is read, _query is to be called on it
QueryBegin(t, version, left, right) ==
  /\ instance = "ready"
  /\ threads[t].pc = "idle"
  /\ threads' = [threads EXCEPT ![t] =
       IF ~ListIndexOk(roots, version)
       THEN [@ EXCEPT !.pc = "done", !.op = "query", !.version = version,
                      !.x = left, !.y = right, !.err = IndexError]
       ELSE [@ EXCEPT !.pc = "visit", !.op = "query", !.version = version,
                      !.x = left, !.y = right,
                      !.work = <<[node |-> ListGet(roots, version), right_of |-> NoneRef,
                                  start |-> 0, end |-> n - 1]>>,
                      !.expect = query(heap, roots, n, version, left, right).ret]]
  /\ UNCHANGED <<instance, n, heap, roots, last, logical, peer, regex, bipartite>>

\* _query, lines 90-97, one call: 0 without overlap, node.value when the range
\* covers the node; otherwise node.left is read and its call is made next, the
\* call for node.right after it.  The query returns after its last call.
QueryVisit(t) ==
  LET th == threads[t]
      w == Head(th.work)
      node == IF w.right_of = NoneRef THEN w.node ELSE heap[w.right_of].right
      mid == (w.start + w.end) \div 2
      disjoint == th.x > w.end \/ th.y < w.start
      covered == th.x <= w.start /\ th.y >= w.end
      work == IF disjoint \/ covered
              THEN Tail(th.work)
              ELSE <<[node |-> heap[node].left, right_of |-> NoneRef,
                      start |-> w.start, end |-> mid],
                     [node |-> NoneRef, right_of |-> node,
                      start |-> mid + 1, end |-> w.end]>> \o Tail(th.work)
      acc == IF ~disjoint /\ covered THEN th.acc + heap[node].value ELSE th.acc
  IN  /\ th.pc = "visit"
      /\ threads' = [threads EXCEPT ![t] =
           [@ EXCEPT !.work = work, !.acc = acc,
                     !.overlap = @ \/ \E u \in Threads \ {t} : InUpdate(threads[u]),
                     !.ret = IF work = <<>> THEN acc ELSE @,
                     !.pc = IF work = <<>> THEN "done" ELSE "visit"]]
      /\ UNCHANGED <<instance, n, heap, roots, last, logical, peer, regex, bipartite>>

(***************************************************************************)
(* SpecThreads: after the constructor, each thread makes one call, an      *)
(* update or a query that meets the documented preconditions; the steps of *)
(* the calls interleave in every way.                                      *)
(***************************************************************************)
ArraysThreads == {[i \in 1..len |-> 2 ^ (i - 1)] : len \in 1..MaxNThreads}

NextThreads ==
  \/ \E arr \in ArraysThreads : Construct(arr)
  \/ \E t \in Threads, version \in 0..(Len(roots) - 1), index \in 0..(n - 1),
        value \in Values :
       UpdateBegin(t, version, index, value)
  \/ \E t \in Threads : UpdateDescend(t)
  \/ \E t \in Threads : UpdateLink(t)
  \/ \E t \in Threads : UpdateValue(t)
  \/ \E t \in Threads : UpdateAppend(t)
  \/ \E t \in Threads : UpdateLen(t)
  \/ \E t \in Threads, version \in 0..(Len(roots) - 1), left \in 0..(n - 1),
        right \in 0..(n - 1) :
       /\ left <= right
       /\ QueryBegin(t, version, left, right)
  \/ \E t \in Threads : QueryVisit(t)

SpecThreads == Init /\ [][NextThreads]_vars

(***************************************************************************)
(* Spec: a client that meets the documented preconditions (an existing     *)
(* version id, 0 <= index < n, 0 <= left <= right <= n-1).                 *)
(***************************************************************************)
Next ==
  \/ \E arr \in Arrays : Construct(arr)
  \/ /\ Len(roots) < MaxVersions
     /\ \E version \in 0..(Len(roots) - 1), index \in 0..(n - 1), value \in Values :
          Update(version, index, value)
  \/ \E version \in 0..(Len(roots) - 1), left \in 0..(n - 1), right \in 0..(n - 1) :
       /\ left <= right
       /\ Query(version, left, right)
  \/ Return

Spec == Init /\ [][Next]_vars

(***************************************************************************)
(* SpecAnyArgs: a client that passes arbitrary integers: version ids from  *)
(* one below the most negative index the table resolves to the first id    *)
(* that does not exist, positions from one below the array to one above.   *)
(***************************************************************************)
VersionArgs == (-(Len(roots) + 1))..Len(roots)

PositionArgs == -1..n

NextAnyArgs ==
  \/ \E arr \in Arrays : Construct(arr)
  \/ /\ Len(roots) < MaxVersionsAnyArgs
     /\ \E version \in VersionArgs, index \in PositionArgs, value \in Values :
          Update(version, index, value)
  \/ \E version \in VersionArgs, left \in PositionArgs, right \in PositionArgs :
       Query(version, left, right)
  \/ Return

SpecAnyArgs == Init /\ [][NextAnyArgs]_vars

(***************************************************************************)
(* SpecLarge: trees of up to MaxNLarge elements, built and queried with    *)
(* arbitrary integer ranges (no updates): the sizes at which a tree has    *)
(* levels of more than four nodes.                                         *)
(***************************************************************************)
ArraysLarge == {[i \in 1..len |-> 2 ^ (i - 1)] : len \in 1..MaxNLarge}

NextLarge ==
  \/ \E arr \in ArraysLarge : Construct(arr)
  \/ \E left \in PositionArgs, right \in PositionArgs : Query(0, left, right)
  \/ Return

SpecLarge == Init /\ [][NextLarge]_vars

(***************************************************************************)
(* SpecInstances: one client that owns two instances and calls them in any *)
(* order, one call at a time, each call meeting the documented             *)
(* preconditions of the instance it is made on.                            *)
(***************************************************************************)
ArraysInstances == {[i \in 1..len |-> 2 ^ (i - 1)] : len \in 1..MaxNInstances}

\* the value the updates of these runs write: larger than the sum of any input
ValuesInstances == {2 ^ (MaxN + 2)}

NextInstances ==
  \/ /\ peer.last = NoCall
     /\ \E arr \in ArraysInstances : Construct(arr)
  \/ /\ peer.last = NoCall
     /\ Len(roots) + Len(peer.roots) < MaxVersionsInstances
     /\ \E version \in 0..(Len(roots) - 1), index \in 0..(n - 1), value \in ValuesInstances :
          Update(version, index, value)
  \/ /\ peer.last = NoCall
     /\ \E version \in 0..(Len(roots) - 1), left \in 0..(n - 1), right \in 0..(n - 1) :
          /\ left <= right
          /\ Query(version, left, right)
  \/ Return
  \/ /\ last = NoCall
     /\ \E arr \in ArraysInstances : PeerConstruct(arr)
  \/ /\ last = NoCall
     /\ Len(roots) + Len(peer.roots) < MaxVersionsInstances
     /\ \E version \in 0..(Len(peer.roots) - 1), index \in 0..(peer.n - 1),
           value \in ValuesInstances :
          PeerUpdate(version, index, value)
  \/ /\ last = NoCall
     /\ \E version \in 0..(Len(peer.roots) - 1), left \in 0..(peer.n - 1),
           right \in 0..(peer.n - 1) :
          /\ left <= right
          /\ PeerQuery(version, left, right)
  \/ PeerReturn

SpecInstances == Init /\ [][NextInstances]_vars

(***************************************************************************)
(* SpecRegex: both matchers run on every text over Letters of at most      *)
(* MaxText characters and every well-formed pattern of at most MaxPattern  *)
(* characters.                                                             *)
(***************************************************************************)
Letters == {"a", "b"}

\* the strings over alphabet of at most k characters
Strings(alphabet, k) == UNION {[1..len -> alphabet] : len \in 0..k}

\* '*' only directly after a letter or '.'
WellFormed(pattern) ==
  \A k \in 1..Len(pattern) :
    pattern[k] = "*" => k > 1 /\ pattern[k - 1] # "*"

Texts == Strings(Letters, MaxText)

Patterns == {pattern \in Strings(Letters \cup {".", "*"}, MaxPattern) : WellFormed(pattern)}

InitRegex ==
  /\ instance = "new"
  /\ n = 0
  /\ heap = <<>>
  /\ roots = <<>>
  /\ last = NoCall
  /\ logical = <<>>
  /\ threads = [t \in Threads |-> IdleThread]
  /\ peer = NoPeer
  /\ \E text \in Texts, pattern \in Patterns : regex = MatchRun(text, pattern)
  /\ bipartite = NoGraph

NextRegex ==
  \/ RecursiveMatch
  \/ DpAlloc
  \/ DpFirstRow
  \/ DpCell
  \/ DpReturn

SpecRegex == InitRegex /\ [][NextRegex]_vars

(***************************************************************************)
(* SpecBipartite: check_bipartite runs on every undirected graph of at     *)
(* most MaxVertices vertices, self-loops allowed, given as symmetric       *)
(* adjacency lists in ascending or in descending order.  The run is one    *)
(* sequential call: a step that can be taken is taken.                     *)
(***************************************************************************)
Vertices(size) == 0..(size - 1)

\* the unordered pairs {u, v}, u = v allowed, an undirected graph may join
Pairs(size) == {pair \in SUBSET Vertices(size) : Cardinality(pair) \in {1, 2}}

\* the members of the set of integers s in ascending order
RECURSIVE Ascending(_)
Ascending(s) ==
  IF s = {} THEN <<>>
  ELSE LET least == CHOOSE x \in s : \A y \in s : x <= y
       IN  <<least>> \o Ascending(s \ {least})

Reversed(list) == [k \in 1..Len(list) |-> list[Len(list) + 1 - k]]

\* the neighbours of u in the graph with the given edges
Neighbours(edges, u) == {v \in UNION edges : {u, v} \in edges}

Graphs ==
  UNION {
    UNION {
      { [v \in 1..size |-> Ascending(Neighbours(edges, v - 1))],
        [v \in 1..size |-> Reversed(Ascending(Neighbours(edges, v - 1)))] }
      : edges \in SUBSET Pairs(size) }
    : size \in 0..MaxVertices }

InitBipartite ==
  /\ instance = "new"
  /\ n = 0
  /\ heap = <<>>
  /\ roots = <<>>
  /\ last = NoCall
  /\ logical = <<>>
  /\ threads = [t \in Threads |-> IdleThread]
  /\ peer = NoPeer
  /\ regex = NoMatch
  /\ \E graph \in Graphs : bipartite = GraphRun(graph)

NextBipartite ==
  \/ BipartiteStart
  \/ BipartiteFor
  \/ BipartitePut
  \/ BipartiteColor
  \/ BfsGet
  \/ BfsNeighbour

SpecBipartite == InitBipartite /\ [][NextBipartite]_vars /\ WF_vars(NextBipartite)

TypeOK ==
  /\ instance \in {"new", "ready", "failed"}
  /\ n \in 0..(MaxN + 1)
  /\ \A i \in 1..Len(roots) : roots[i] \in 1..Len(heap)
  /\ Len(logical) = Len(roots)

(***************************************************************************)
(* Vocabulary of the properties.                                           *)
(***************************************************************************)
\* the last call was op and raised nothing
Succeeded(op) == last.op = op /\ last.err = NoError

\* the nodes reachable from node through left and right references
RECURSIVE Reachable(_, _)
Reachable(h, node) ==
  IF node = NoneRef THEN {}
  ELSE {node} \cup Reachable(h, h[node].left) \cup Reachable(h, h[node].right)

\* arr[lo] + ... + arr[hi] for 0-based positions, 0 when lo > hi: the oracle
RECURSIVE DirectSum(_, _, _)
DirectSum(arr, lo, hi) ==
  IF lo > hi THEN 0 ELSE arr[lo + 1] + DirectSum(arr, lo + 1, hi)

\* the values of the leaves under node, from left to right: the array a root stores
RECURSIVE Leaves(_, _)
Leaves(h, node) ==
  IF h[node].left = NoneRef /\ h[node].right = NoneRef
  THEN <<h[node].value>>
  ELSE Leaves(h, h[node].left) \o Leaves(h, h[node].right)

\* what query(version, left, right) returns in the state (h, rts)
QueryRet(h, rts, version, left, right) == query(h, rts, n, version, left, right).ret

\* the number of update calls that returned so far
UpdatesDone == Len(logical) - 1

(***************************************************************************)
(* C1: no call changes a node reachable from a root the version table      *)
(* already holds: each such node keeps its value and both child            *)
(* references, and each existing version id keeps its root.                *)
(***************************************************************************)
C1_PublishedNodesNeverChange ==
  [][/\ Len(roots') >= Len(roots)
     /\ \A v \in 1..Len(roots) :
          /\ roots'[v] = roots[v]
          /\ \A node \in Reachable(heap, roots[v]) : heap'[node] = heap[node]]_vars

\* a second update, whose base is version 0 and not the latest version, returned
C1_Witness ==
  /\ Succeeded("update")
  /\ Len(roots) = 3
  /\ last.version = 0

(***************************************************************************)
(* C2: a query on an existing version over 0 <= left <= right <= n-1       *)
(* returns the direct sum of elements left..right of the array the version *)
(* denotes (the input for version 0, the base's array with element i       *)
(* replaced by x for the version made by update(b, i, x)).                 *)
(***************************************************************************)
C2_QueryEqualsDirectSum ==
  Succeeded("query") =>
    /\ logical[last.version + 1].defined
    /\ last.ret = DirectSum(logical[last.version + 1].arr, last.x, last.y)

\* a query over more than one element of version 1, after two updates of which
\* the second did not build on the first (versions 1 and 2 differ from version 0
\* in different elements)
C2_Witness ==
  /\ Succeeded("query")
  /\ Len(roots) = 3
  /\ last.version = 1
  /\ last.x < last.y
  /\ \E i, j \in 1..n :
       /\ i # j
       /\ logical[2].arr[i] # logical[1].arr[i]
       /\ logical[3].arr[i] = logical[1].arr[i]
       /\ logical[3].arr[j] # logical[1].arr[j]

(***************************************************************************)
(* C3: after update(b, i, x) returned v', the whole-array sum of v' is the *)
(* whole-array sum of b minus b's element i plus x, and the whole-array    *)
(* sum of b is what it was before the call.                                *)
(***************************************************************************)
C3_UpdateShiftsSumByDelta ==
  [][(last'.op = "update" /\ last'.err = NoError) =>
       LET b == last'.version
           i == last'.x
           x == last'.y
           new == last'.ret
       IN  /\ QueryRet(heap', roots', new, 0, n - 1)
                = QueryRet(heap, roots, b, 0, n - 1) - QueryRet(heap, roots, b, i, i) + x
           /\ QueryRet(heap', roots', b, 0, n - 1) = QueryRet(heap, roots, b, 0, n - 1)]_vars

\* an update that changed an element returned, its base being an older version
C3_Witness ==
  /\ Succeeded("update")
  /\ last.version < Len(roots) - 2
  /\ QueryRet(heap, roots, last.ret, 0, n - 1)
       # QueryRet(heap, roots, last.version, 0, n - 1)

(***************************************************************************)
(* C4: the constructor leaves exactly one entry in the version table, and  *)
(* the k-th update call that returns (k >= 1) returns k, which is the      *)
(* length of the table before the call and the index at which the table    *)
(* holds the root the call made.                                           *)
(***************************************************************************)
C4_VersionIdsDense ==
  [][/\ (last'.op = "init" /\ last'.err = NoError) => Len(roots') = 1
     /\ (last'.op = "update" /\ last'.err = NoError) =>
          /\ last'.ret = UpdatesDone'
          /\ last'.ret >= 1
          /\ last'.ret = Len(roots)
          /\ Len(roots') = last'.ret + 1
          /\ roots'[last'.ret + 1] \in (Len(heap) + 1)..Len(heap')]_vars

\* the second update returned
C4_Witness ==
  /\ Succeeded("update")
  /\ UpdatesDone = 2

(***************************************************************************)
(* C5: the version table is append-only: an update that returns makes it   *)
(* one longer, every other call keeps its length, and no call changes the  *)
(* root at an index that existed.                                          *)
(***************************************************************************)
C5_TableAppendOnly ==
  [][/\ IF last'.op \in {"init", "update"} /\ last'.err = NoError
        THEN Len(roots') = Len(roots) + 1
        ELSE Len(roots') = Len(roots)
     /\ \A v \in 1..Len(roots) : roots'[v] = roots[v]]_vars

\* an update returned while the table held more than one version
C5_Witness ==
  /\ Succeeded("update")
  /\ Len(roots) = 3

(***************************************************************************)
(* C6: update and query with version >= len(roots) raise an error and      *)
(* leave the version table and every node as they were.                    *)
(***************************************************************************)
C6_TooLargeVersionRejected ==
  [][(last'.op \in {"update", "query"} /\ last'.version >= Len(roots)) =>
       /\ last'.err # NoError
       /\ roots' = roots
       /\ heap' = heap]_vars

\* an update was called with the first version id that does not exist
C6_Witness ==
  /\ last.op = "update"
  /\ last.version = Len(roots)
  /\ last.err = IndexError

(***************************************************************************)
(* C7: update and query with a negative version id raise an error: none    *)
(* returns a result or appends a version.                                  *)
(***************************************************************************)
C7_NegativeVersionRejected ==
  (last.op \in {"update", "query"} /\ last.version < 0) => last.err # NoError

(***************************************************************************)
(* C8: update with an existing version and an index outside 0..n-1 raises  *)
(* an error, appends no version and writes the value nowhere.              *)
(***************************************************************************)
C8_IndexOutOfBoundsRejected ==
  [][(/\ last'.op = "update"
      /\ 0 <= last'.version /\ last'.version < Len(roots)
      /\ (last'.x < 0 \/ last'.x >= n)) =>
       /\ last'.err # NoError
       /\ roots' = roots
       /\ heap' = heap]_vars

(***************************************************************************)
(* C9: the constructor returns for an empty input, version 0 is a root of  *)
(* value 0, and every query on it returns 0.                               *)
(***************************************************************************)
C9_EmptyBuildSucceeds ==
  (last.op = "init" /\ n = 0) =>
    /\ last.err = NoError
    /\ instance = "ready"
    /\ Len(roots) = 1
    /\ heap[roots[1]].value = 0
    /\ \A left \in PositionArgs, right \in PositionArgs :
         QueryRet(heap, roots, 0, left, right) = 0

(***************************************************************************)
(* C10: on a tree of n >= 1 elements, a query on an existing version       *)
(* raises nothing for any integers left and right; it returns 0 when       *)
(* left > right or when left..right lies outside 0..n-1, and otherwise the *)
(* sum of the elements of left..right that lie inside 0..n-1.              *)
(***************************************************************************)
C10_DegenerateRangesSumInside ==
  (/\ last.op = "query"
   /\ n >= 1
   /\ 0 <= last.version /\ last.version < Len(roots)) =>
    LET arr == Leaves(heap, roots[last.version + 1])
        left == last.x
        right == last.y
    IN  /\ last.err = NoError
        /\ Len(arr) = n
        /\ IF left > right \/ right < 0 \/ left > n - 1
           THEN last.ret = 0
           ELSE last.ret = DirectSum(arr, Max(left, 0), Min(right, n - 1))

\* a query whose range lies partly outside the array returned a sum that is
\* neither 0 nor the whole array
C10_Witness ==
  /\ Succeeded("query")
  /\ 0 <= last.version /\ last.version < Len(roots)
  /\ last.x < 0
  /\ 0 <= last.y /\ last.y < n - 1
  /\ last.ret > 0

(***************************************************************************)
(* C11: a query changes nothing: the version table and every node are the  *)
(* same after it and no node is allocated; and a step that does change the *)
(* table or a node (an update) changes nothing of what a query on an       *)
(* existing version returns, so a repeated query, straight away or after   *)
(* any updates, returns the same value.                                    *)
(***************************************************************************)
C11_QueryHasNoSideEffects ==
  [][/\ last'.op = "query" => (roots' = roots /\ heap' = heap)
     /\ (roots' # roots \/ heap' # heap) =>
          \A version \in 0..(Len(roots) - 1), left \in 0..(n - 1), right \in 0..(n - 1) :
            QueryRet(heap', roots', version, left, right)
              = QueryRet(heap, roots, version, left, right)]_vars

\* a query on version 0 returned after two updates had made other versions
C11_Witness ==
  /\ Succeeded("query")
  /\ last.version = 0
  /\ Len(roots) = 3

\* the least k with 2^k >= m, and the greatest k with 2^k <= m (m >= 1)
RECURSIVE CeilLog2(_)
CeilLog2(m) == IF m <= 1 THEN 0 ELSE 1 + CeilLog2((m + 1) \div 2)

RECURSIVE FloorLog2(_)
FloorLog2(m) == IF m <= 1 THEN 0 ELSE 1 + FloorLog2(m \div 2)

\* the nodes a step allocated
NewNodes == (Len(heap) + 1)..Len(heap')

\* the step is an update(version, index, value) call that returned
UpdateReturned == last'.op = "update" /\ last'.err = NoError

(***************************************************************************)
(* C14 as claimed: an update of an array of n >= 1 elements creates        *)
(* exactly ceil(log2 n) + 1 nodes, whatever the index.                     *)
(***************************************************************************)
C14_ExactlyCeilLogPlusOneNodes ==
  [][UpdateReturned => Cardinality(NewNodes) = CeilLog2(n) + 1]_vars

(***************************************************************************)
(* C14 as amended: an update creates at least floor(log2 n) + 1 and at     *)
(* most ceil(log2 n) + 1 nodes (one per node of the path from the root to  *)
(* the leaf of the index), hence exactly ceil(log2 n) + 1 when n is a      *)
(* power of two.                                                           *)
(***************************************************************************)
C14_OneNodePerPathLevel ==
  [][UpdateReturned =>
       /\ Cardinality(NewNodes) >= FloorLog2(n) + 1
       /\ Cardinality(NewNodes) <= CeilLog2(n) + 1]_vars

\* an update of an array of 3 elements returned having created 2 nodes, one fewer
\* than ceil(log2 3) + 1: its leaf is a child of the root
C14_Witness ==
  /\ Succeeded("update")
  /\ n = 3
  /\ heap[roots[last.ret + 1]].right = Len(heap)
  /\ roots[last.ret + 1] = Len(heap) - 1

\* along the path of index from the new node new and the base node base, both
\* denoting start..end: at each internal node the child off the path is, by
\* reference, the base node's child on the same side
RECURSIVE SharesOffPath(_, _, _, _, _, _, _)
SharesOffPath(hNew, new, hBase, base, start, end, index) ==
  IF start = end THEN TRUE
  ELSE LET mid == (start + end) \div 2
       IN  IF index <= mid
           THEN /\ hNew[new].right = hBase[base].right
                /\ SharesOffPath(hNew, hNew[new].left, hBase, hBase[base].left,
                                 start, mid, index)
           ELSE /\ hNew[new].left = hBase[base].left
                /\ SharesOffPath(hNew, hNew[new].right, hBase, hBase[base].right,
                                 mid + 1, end, index)

(***************************************************************************)
(* C15: an update allocates at most 2*ceil(log2 n) + 1 nodes; every node   *)
(* reachable from the new root that the call did not allocate is a node of *)
(* the base version, and at each internal node of the path the child off   *)
(* the path is the same object as the base node's child on that side.      *)
(***************************************************************************)
C15_StructuralSharing ==
  [][UpdateReturned =>
       LET base == roots[last'.version + 1]
           new == roots'[last'.ret + 1]
       IN  /\ Cardinality(NewNodes) <= 2 * CeilLog2(n) + 1
           /\ Reachable(heap', new) \ NewNodes \subseteq Reachable(heap, base)
           /\ SharesOffPath(heap', new, heap, base, 0, n - 1, last'.x)]_vars

\* an update of the right part of a 3-element array returned: the new root
\* shares the whole left subtree (3 nodes) with an older base version
C15_Witness ==
  /\ Succeeded("update")
  /\ n = 3
  /\ last.x = 2
  /\ last.version < Len(roots) - 2
  /\ heap[roots[last.ret + 1]].left = heap[roots[last.version + 1]].left

\* the nodes reachable from some root of the version table
Published == UNION {Reachable(heap, roots[v]) : v \in 1..Len(roots)}

IsLeaf(h, node) == h[node].left = NoneRef /\ h[node].right = NoneRef

(***************************************************************************)
(* C16: every node reachable from a root of the version table has both     *)
(* children or none, and the value of one that has children is the sum of  *)
(* the values of its two children.                                         *)
(***************************************************************************)
C16_AggregationInvariant ==
  \A node \in Published :
    \/ IsLeaf(heap, node)
    \/ /\ heap[node].left # NoneRef
       /\ heap[node].right # NoneRef
       /\ heap[node].value = heap[heap[node].left].value + heap[heap[node].right].value

\* three versions of a 3-element array exist, the latest made by an update that
\* wrote the large value: its root is an internal node whose sum changed
C16_Witness ==
  /\ Succeeded("update")
  /\ n = 3
  /\ Len(roots) = 3
  /\ heap[roots[3]].value > heap[roots[1]].value

(***************************************************************************)
(* C17: build, update and query split ranges alike.  The leaf build fills  *)
(* with arr[i] is the leaf query(0, i, i) reads; the leaf update(b, i, x)  *)
(* replaces is the i-th leaf from the left, the one in the place of the    *)
(* leaf build filled with arr[i], and no other; and query(v', i, i) on the *)
(* version v' the update returned reads that leaf and returns x.           *)
(***************************************************************************)
C17_SameSplitEverywhere ==
  [][/\ (last'.op = "init" /\ last'.err = NoError) =>
          \A i \in 0..(n' - 1) :
            /\ Leaves(heap', roots'[1])[i + 1] = logical'[1].arr[i + 1]
            /\ query(heap', roots', n', 0, i, i).ret = logical'[1].arr[i + 1]
     /\ UpdateReturned =>
          LET base == roots[last'.version + 1]
              new == roots'[last'.ret + 1]
              i == last'.x
              x == last'.y
          IN  /\ Leaves(heap', new) = [Leaves(heap, base) EXCEPT ![i + 1] = x]
              /\ QueryRet(heap', roots', last'.ret, i, i) = x
              /\ \A j \in 0..(n - 1) :
                   QueryRet(heap', roots', last'.ret, j, j) = Leaves(heap', new)[j + 1]]_vars

\* an update of the middle element of a 3-element array returned, with a value
\* the array did not hold
C17_Witness ==
  /\ Succeeded("update")
  /\ n = 3
  /\ last.x = 1
  /\ last.y > 4
  /\ QueryRet(heap, roots, last.ret, 1, 1) = last.y

\* the number of nodes of the tree under node, a node counted once per path to it
RECURSIVE TreeSize(_, _)
TreeSize(h, node) ==
  IF IsLeaf(h, node) THEN 1
  ELSE 1 + TreeSize(h, h[node].left) + TreeSize(h, h[node].right)

\* the number of edges from node to its deepest leaf
RECURSIVE Height(_, _)
Height(h, node) ==
  IF IsLeaf(h, node) THEN 0
  ELSE 1 + Max(Height(h, h[node].left), Height(h, h[node].right))

(***************************************************************************)
(* C18: for an input of n >= 1 elements the constructor makes a tree of    *)
(* 2n-1 distinct nodes, n leaves and n-1 internal nodes; the i-th leaf     *)
(* holds arr[i]; the root's value is the sum of the array; no leaf is      *)
(* deeper than ceil(log2 n).                                               *)
(***************************************************************************)
C18_BuildShape ==
  (Succeeded("init") /\ n >= 1) =>
    LET root == roots[1]
        nodes == Reachable(heap, root)
    IN  /\ Len(heap) = 2 * n - 1
        /\ Cardinality(nodes) = 2 * n - 1
        /\ TreeSize(heap, root) = 2 * n - 1
        /\ Cardinality({node \in nodes : IsLeaf(heap, node)}) = n
        /\ Cardinality({node \in nodes : ~IsLeaf(heap, node)}) = n - 1
        /\ Leaves(heap, root) = logical[1].arr
        /\ heap[root].value = DirectSum(logical[1].arr, 0, n - 1)
        /\ Height(heap, root) <= CeilLog2(n)

\* the constructor returned for an input of 3 elements: 5 nodes, leaves at depths
\* 1 and 2
C18_Witness ==
  /\ Succeeded("init")
  /\ n = 3
  /\ Len(heap) = 5

(***************************************************************************)
(* C20: update(b, i, x) with x the value element i of b already has        *)
(* returns like any update: the table gets a new version whose root is a   *)
(* new object, not b's root, and every query on the new version returns    *)
(* what the same query on b returns.                                       *)
(***************************************************************************)
C20_SameValueUpdate ==
  [][(/\ last'.op = "update"
      /\ ListIndexOk(roots, last'.version)
      /\ QueryRet(heap, roots, last'.version, last'.x, last'.x) = last'.y) =>
       /\ last'.err = NoError
       /\ Len(roots') = Len(roots) + 1
       /\ last'.ret = Len(roots)
       /\ roots'[last'.ret + 1] \in NewNodes
       /\ roots'[last'.ret + 1] # roots[last'.version + 1]
       /\ \A left \in 0..(n - 1), right \in 0..(n - 1) :
            QueryRet(heap', roots', last'.ret, left, right)
              = QueryRet(heap, roots, last'.version, left, right)]_vars

\* an update returned that wrote the large value where an earlier update had
\* written it: the new version denotes the array of its base
C20_Witness ==
  /\ Succeeded("update")
  /\ last.y > 1
  /\ logical[last.ret + 1].arr = logical[last.version + 1].arr

\* the calls of _query that the last query made
LastQueryVisits ==
  _query_visits(heap, ListGet(roots, last.version), 0, n - 1, last.x, last.y, 0)

\* the number of calls among visits made at depth level
VisitsAt(visits, level) ==
  Cardinality({k \in 1..Len(visits) : visits[k].level = level})

(***************************************************************************)
(* C19: a query on a tree of n >= 1 elements returns for every pair of     *)
(* integers left, right; it makes no recursive call from a node whose      *)
(* range is inside left..right or disjoint from it; it visits at most 4    *)
(* nodes at each depth, none deeper than ceil(log2 n), hence at most       *)
(* 4*(ceil(log2 n) + 1) nodes.                                             *)
(***************************************************************************)
C19_QueryVisitsBounded ==
  (last.op = "query" /\ n >= 1 /\ ListIndexOk(roots, last.version)) =>
    LET q == LastQueryVisits
    IN  /\ last.err = NoError
        /\ q.ret = last.ret
        /\ \A k \in 1..Len(q.visits) :
             /\ q.visits[k].level <= CeilLog2(n)
             /\ q.visits[k].descended =>
                  /\ ~(last.x <= q.visits[k].start /\ q.visits[k].end <= last.y)
                  /\ ~(last.x > q.visits[k].end \/ last.y < q.visits[k].start)
        /\ \A level \in 0..CeilLog2(n) : VisitsAt(q.visits, level) <= 4
        /\ Len(q.visits) <= 4 * (CeilLog2(n) + 1)

\* a query on a tree of 8 elements returned that visited 4 of the 8 nodes of the
\* deepest level and 4 of the level above
C19_Witness ==
  /\ Succeeded("query")
  /\ n = 8
  /\ VisitsAt(LastQueryVisits.visits, 3) = 4
  /\ VisitsAt(LastQueryVisits.visits, 2) = 4

\* thread t made an update call that returned a version id
UpdateDone(t) ==
  threads[t].op = "update" /\ threads[t].pc = "done" /\ threads[t].err = NoError

(***************************************************************************)
(* C12: when update calls run concurrently, the ids they return are        *)
(* pairwise distinct, the table holds at each returned id the root the     *)
(* returning call built, and the table has one entry per version made.     *)
(***************************************************************************)
C12_ConcurrentUpdateIds ==
  /\ instance = "ready" =>
       Len(roots) = 1 + Cardinality({t \in Threads :
                                          threads[t].op = "update"
                                          /\ threads[t].pc \in {"len", "done"}
                                          /\ threads[t].err = NoError})
  /\ \A t \in Threads :
       UpdateDone(t) =>
         /\ roots[threads[t].ret + 1] = threads[t].result
         /\ \A u \in Threads \ {t} : UpdateDone(u) => threads[u].ret # threads[t].ret

\* the nodes some running _update call has allocated and not yet returned
UnderConstruction ==
  UNION {{threads[t].stack[k].new_node : k \in 1..Len(threads[t].stack)} : t \in Threads}

(***************************************************************************)
(* C13: a query that runs while update calls run returns the sum it would  *)
(* return alone: no node an update is still filling in is reachable from a *)
(* root of the version table, every reachable node has its children and    *)
(* its value set, and the value the query returns is the one it returns    *)
(* when run without interruption from the state where it started.          *)
(***************************************************************************)
C13_QueriesSeeOnlyFinishedNodes ==
  /\ Published \cap UnderConstruction = {}
  /\ \A node \in Published :
       \/ IsLeaf(heap, node)
       \/ /\ heap[node].left # NoneRef
          /\ heap[node].right # NoneRef
          /\ heap[node].value
               = heap[heap[node].left].value + heap[heap[node].right].value
  /\ \A t \in Threads :
       (threads[t].op = "query" /\ threads[t].pc = "done" /\ threads[t].err = NoError) =>
         /\ threads[t].ret = threads[t].expect
         /\ threads[t].ret
              = DirectSum(logical[threads[t].version + 1].arr, threads[t].x, threads[t].y)

\* a query over the whole of a 3-element array returned, having made _query
\* calls while the other thread was inside an update that has since appended
\* its version
C13_Witness ==
  \E t \in Threads :
    /\ threads[t].op = "query"
    /\ threads[t].pc = "done"
    /\ threads[t].overlap
    /\ threads[t].y - threads[t].x >= 1
    /\ n = 3
    /\ Len(roots) = 2

(***************************************************************************)
(* C21: two instances do not interfere.  A call on one instance leaves the *)
(* other instance's n and version table (its length and every root         *)
(* reference) as they were, leaves every node reachable from the other's   *)
(* roots as it was, and leaves the result of every query on the other     *)
(* unchanged (compared on the calls that allocate or write a node: with    *)
(* the same nodes and the same table a query returns the same); and at all *)
(* times no node is reachable from the roots of both instances.            *)
(***************************************************************************)
\* the nodes reachable from the roots of the second instance
PeerPublished == UNION {Reachable(heap, peer.roots[v]) : v \in 1..Len(peer.roots)}

\* the step is a call made on the first / on the second instance
CallOnFirst == last' # last /\ last'.op # "none"

CallOnPeer == peer.last' # peer.last /\ peer.last'.op # "none"

C21_InstancesDoNotInterfere ==
  [][/\ CallOnPeer =>
          /\ n' = n
          /\ roots' = roots
          /\ \A node \in Published : heap'[node] = heap[node]
          /\ heap' # heap =>
               \A version \in 0..(Len(roots) - 1), left \in 0..(n - 1),
                  right \in 0..(n - 1) :
                 query(heap', roots', n', version, left, right)
                   = query(heap, roots, n, version, left, right)
     /\ CallOnFirst =>
          /\ peer.n' = peer.n
          /\ peer.roots' = peer.roots
          /\ \A node \in PeerPublished : heap'[node] = heap[node]
          /\ heap' # heap =>
               \A version \in 0..(Len(peer.roots) - 1), left \in 0..(peer.n - 1),
                  right \in 0..(peer.n - 1) :
                 query(heap', peer.roots', peer.n', version, left, right)
                   = query(heap, peer.roots, peer.n, version, left, right)
     /\ (Published \cap PeerPublished = {})']_vars

\* both instances were built and updated, the first before the second, and
\* the last call was an update on the second
C21_Witness ==
  /\ instance = "ready" /\ peer.instance = "ready"
  /\ n # peer.n
  /\ Len(roots) = 2 /\ Len(peer.roots) = 2
  /\ roots[2] < peer.roots[1]
  /\ peer.last.op = "update" /\ peer.last.err = NoError
  /\ Leaves(heap, roots[1]) = logical[1].arr
  /\ Leaves(heap, roots[2]) = logical[2].arr

(***************************************************************************)
(* The oracle of regex matching: a pattern is a list of elements, each a   *)
(* character ('.' or a letter) that is starred or not; the whole text      *)
(* matches when it splits into one character per plain element and zero    *)
(* or more per starred element, each character fitting its element.        *)
(***************************************************************************)
RECURSIVE Elements(_)
Elements(pattern) ==
  IF pattern = <<>> THEN <<>>
  ELSE IF Len(pattern) >= 2 /\ pattern[2] = "*"
       THEN <<[char |-> pattern[1], star |-> TRUE]>> \o Elements(SubSeq(pattern, 3, Len(pattern)))
       ELSE <<[char |-> pattern[1], star |-> FALSE]>> \o Elements(Tail(pattern))

Fits(c, element) == element.char = "." \/ element.char = c

RECURSIVE MatchesElements(_, _)
MatchesElements(text, elements) ==
  IF elements = <<>> THEN text = <<>>
  ELSE IF Head(elements).star
       THEN \/ MatchesElements(text, Tail(elements))
            \/ /\ text # <<>>
               /\ Fits(Head(text), Head(elements))
               /\ MatchesElements(Tail(text), elements)
       ELSE /\ text # <<>>
            /\ Fits(Head(text), Head(elements))
            /\ MatchesElements(Tail(text), Tail(elements))

Matches(text, pattern) == MatchesElements(text, Elements(pattern))

\* both functions returned
MatchersReturned == regex.pc = "done"

(***************************************************************************)
(* C22: on every text over the letters and every well-formed pattern,      *)
(* recursive_match and dp_match return the same Boolean, and it is True    *)
(* exactly when the whole text matches the pattern.                        *)
(***************************************************************************)
C22_MatchersAgree ==
  MatchersReturned =>
    /\ regex.recursive = regex.ret
    /\ regex.ret = Matches(regex.text, regex.pattern)

\* dp_match alone returns True exactly when the whole text matches
DpMatchExact ==
  MatchersReturned => regex.ret = Matches(regex.text, regex.pattern)

\* recursive_match never misses a match: when the text matches, it returns True
RecursiveMatchComplete ==
  MatchersReturned /\ Matches(regex.text, regex.pattern) => regex.recursive

(***************************************************************************)
(* The oracle of bipartiteness for the graph of a run.                     *)
(***************************************************************************)
\* the vertices of the graph and the neighbours its lists give to u
GraphVertices(graph) == 0..(Len(graph) - 1)

Adjacent(graph, u) == {graph[u + 1][k] : k \in 1..Len(graph[u + 1])}

\* the vertices split into two sets with no edge inside a set
TwoColourable(graph) ==
  \E side \in [GraphVertices(graph) -> {0, 1}] :
    \A u \in GraphVertices(graph) : \A v \in Adjacent(graph, u) : side[u] # side[v]

\* a walk of exactly len edges leads from u to v
RECURSIVE Walk(_, _, _, _)
Walk(graph, u, v, len) ==
  IF len = 0 THEN u = v
  ELSE \E w \in Adjacent(graph, u) : Walk(graph, w, v, len - 1)

HasSelfLoop(graph) == \E u \in GraphVertices(graph) : u \in Adjacent(graph, u)

\* a cycle of odd length, three or more: an odd closed walk that is not
\* longer than the number of vertices, in a graph without self-loops
HasOddCycle(graph) ==
  /\ ~HasSelfLoop(graph)
  /\ \E u \in GraphVertices(graph), len \in 3..Len(graph) :
       len % 2 = 1 /\ Walk(graph, u, u, len)

\* check_bipartite returned
BipartiteReturned == bipartite.pc = "done"

\* the run is inside bfs()
InBfs == bipartite.pc \in {"bfs", "neighbour"}

C23_WitnessOddCycle ==
  /\ BipartiteReturned
  /\ bipartite.ret = FALSE
  /\ ~HasSelfLoop(bipartite.graph)
  /\ HasOddCycle(bipartite.graph)
====
